---- MODULE Spec2Model ----
(***************************************************************************)
(* Model of layers/synchronization_validation.cpp: the per-resource        *)
(* access state machine (ResourceAccessState), the stage/access scope      *)
(* calculator and the SyncValidator command hooks (copy, pipeline barrier, *)
(* command buffer reset).                                                  *)
(*                                                                         *)
(* Bitmasks are modelled as sets of bit positions: a | b is a \cup b,      *)
(* a & b is a \cap b, "nonzero" is "non-empty", and a single-bit value is  *)
(* the bit position itself.  The numeric comparison mask < bit used by     *)
(* AccessScopeImpl is "every set position is below the bit's position".    *)
(*                                                                         *)
(* The model keeps three pipeline stages (compute shader, transfer and      *)
(* bottom of pipe, which has no accesses) and three stage/access pairs     *)
(* (compute shader read, transfer read, transfer write).                   *)
(*                                                                         *)
(* Two specifications share the variables:                                 *)
(*   SpecState  drives one ResourceAccessState with arbitrary usages,      *)
(*              tags and barriers (the unit the state machine claims       *)
(*              speak about);                                              *)
(*   Spec       drives the SyncValidator hooks on command buffers.         *)
(***************************************************************************)
EXTENDS Integers, Naturals, Sequences, FiniteSets, TLC

\* ------------------------------------------------------------------------
\* Bounds of the model
\* ------------------------------------------------------------------------
MaxTag == 2
MaxRegions == 2

\* ------------------------------------------------------------------------
\* Vulkan enumerations used by the file (bit positions)
\* ------------------------------------------------------------------------
VK_PIPELINE_STAGE_COMPUTE_SHADER_BIT == 11
VK_PIPELINE_STAGE_TRANSFER_BIT == 12
VK_PIPELINE_STAGE_BOTTOM_OF_PIPE_BIT == 13

VK_ACCESS_SHADER_READ_BIT == 5
VK_ACCESS_TRANSFER_READ_BIT == 11
VK_ACCESS_TRANSFER_WRITE_BIT == 12

\* SyncStageAccessIndex values (a stage/access pair each)
SYNC_COMPUTE_SHADER_SHADER_READ == 0
SYNC_TRANSFER_TRANSFER_READ == 1
SYNC_TRANSFER_TRANSFER_WRITE == 2

SyncStageAccessIndex ==
    { SYNC_COMPUTE_SHADER_SHADER_READ, SYNC_TRANSFER_TRANSFER_READ, SYNC_TRANSFER_TRANSFER_WRITE }

syncStageAccessReadMask == { SYNC_COMPUTE_SHADER_SHADER_READ, SYNC_TRANSFER_TRANSFER_READ }

\* ~SyncStageAccessFlags(0)
AllStageAccess == SyncStageAccessIndex

PipelineStages ==
    { VK_PIPELINE_STAGE_COMPUTE_SHADER_BIT, VK_PIPELINE_STAGE_TRANSFER_BIT,
      VK_PIPELINE_STAGE_BOTTOM_OF_PIPE_BIT }

\* SyncHazard
NONE == "NONE"
READ_AFTER_WRITE == "READ_AFTER_WRITE"
WRITE_AFTER_READ == "WRITE_AFTER_READ"
WRITE_AFTER_WRITE == "WRITE_AFTER_WRITE"

\* ResourceUsageTag(): the default tag
DefaultTag == 0

\* ------------------------------------------------------------------------
\* SyncStageAccess helpers
\* ------------------------------------------------------------------------
FlagBit(usage_index) == { usage_index }

IsRead(usage) == (usage \cap syncStageAccessReadMask) # {}

PipelineStageBit(usage_index) ==
    IF usage_index = SYNC_COMPUTE_SHADER_SHADER_READ
    THEN VK_PIPELINE_STAGE_COMPUTE_SHADER_BIT
    ELSE VK_PIPELINE_STAGE_TRANSFER_BIT

\* The two lookup tables, as sequences of <<key bit, scope>> in ascending key order
syncStageAccessMaskByStageBit ==
    << << VK_PIPELINE_STAGE_COMPUTE_SHADER_BIT, { SYNC_COMPUTE_SHADER_SHADER_READ } >>,
       << VK_PIPELINE_STAGE_TRANSFER_BIT,
          { SYNC_TRANSFER_TRANSFER_READ, SYNC_TRANSFER_TRANSFER_WRITE } >> >>

syncStageAccessMaskByAccessBit ==
    << << VK_ACCESS_SHADER_READ_BIT, { SYNC_COMPUTE_SHADER_SHADER_READ } >>,
       << VK_ACCESS_TRANSFER_READ_BIT, { SYNC_TRANSFER_TRANSFER_READ } >>,
       << VK_ACCESS_TRANSFER_WRITE_BIT, { SYNC_TRANSFER_TRANSFER_WRITE } >> >>

\* flag_mask < bit, on masks as sets of positions
MaskLess(flag_mask, bit) == \A b \in flag_mask : b < bit

RECURSIVE AccessScopeLoop(_, _, _, _)
AccessScopeLoop(flag_mask, map, i, scope) ==
    IF i > Len(map) THEN scope
    ELSE IF MaskLess(flag_mask, map[i][1]) THEN scope
    ELSE AccessScopeLoop(flag_mask, map, i + 1,
                         IF map[i][1] \in flag_mask THEN scope \cup map[i][2] ELSE scope)

AccessScopeImpl(flag_mask, map) == AccessScopeLoop(flag_mask, map, 1, {})

AccessScopeByStage(stages) == AccessScopeImpl(stages, syncStageAccessMaskByStageBit)

AccessScopeByAccess(accesses) == AccessScopeImpl(accesses, syncStageAccessMaskByAccessBit)

AccessScope(stages, accesses) == AccessScopeByStage(stages) \cap AccessScopeByAccess(accesses)

\* ------------------------------------------------------------------------
\* ResourceAccessState
\* ------------------------------------------------------------------------
\* last_reads holds the live records last_reads[0 .. last_read_count-1];
\* last_read_count is Len(last_reads).
NewResourceAccessState ==
    [ last_write |-> {}, write_barriers |-> AllStageAccess, write_tag |-> DefaultTag,
      last_reads |-> << >>, last_read_stages |-> {} ]

HazardResult(hazard, t) == [ hazard |-> hazard, tag |-> t ]

NoHazard == HazardResult(NONE, DefaultTag)

IsWriteHazard(s, usage) == (usage \ s.write_barriers) # {}

IsReadHazard(stage, read_access) == stage \notin read_access.barriers

RECURSIVE FirstReadHazard(_, _, _)
FirstReadHazard(s, usage_stage, read_index) ==
    IF read_index > Len(s.last_reads) THEN NoHazard
    ELSE IF IsReadHazard(usage_stage, s.last_reads[read_index])
         THEN HazardResult(WRITE_AFTER_READ, s.last_reads[read_index].tag)
         ELSE FirstReadHazard(s, usage_stage, read_index + 1)

\* DetectHazard, were the read records examined before the prior write
DetectHazard_ReadsFirst(s, usage_index) ==
    LET usage == FlagBit(usage_index)
        war == FirstReadHazard(s, PipelineStageBit(usage_index), 1)
    IN  IF IsRead(usage) /\ IsWriteHazard(s, usage)
        THEN HazardResult(READ_AFTER_WRITE, s.write_tag)
        ELSE IF war.hazard # NONE THEN war
        ELSE IF s.last_write # {} /\ IsWriteHazard(s, usage)
             THEN HazardResult(WRITE_AFTER_WRITE, s.write_tag)
             ELSE NoHazard

DetectHazard(s, usage_index) ==
    LET usage == FlagBit(usage_index) IN
    IF IsRead(usage) /\ IsWriteHazard(s, usage)
    THEN HazardResult(READ_AFTER_WRITE, s.write_tag)
    ELSE IF s.last_write # {} /\ IsWriteHazard(s, usage)
         THEN HazardResult(WRITE_AFTER_WRITE, s.write_tag)
         ELSE FirstReadHazard(s, PipelineStageBit(usage_index), 1)

\* index of the first record of last_reads whose stage is usage_stage, 0 if none
RECURSIVE FindReadStage(_, _, _)
FindReadStage(reads, usage_stage, read_index) ==
    IF read_index > Len(reads) THEN 0
    ELSE IF reads[read_index].stage = usage_stage THEN read_index
    ELSE FindReadStage(reads, usage_stage, read_index + 1)

\* UpdateRead, were a repeated read to keep the barriers of its stage's record
UpdateRead_KeepsBarriers(s, usage_index, t) ==
    LET usage_stage == PipelineStageBit(usage_index)
        fresh == [ stage |-> usage_stage, barriers |-> {}, tag |-> t ]
    IN  IF usage_stage \in s.last_read_stages
        THEN LET i == FindReadStage(s.last_reads, usage_stage, 1) IN
             IF i = 0 THEN s
             ELSE [ s EXCEPT !.last_reads[i].tag = t ]
        ELSE [ s EXCEPT !.last_reads = Append(@, fresh),
                        !.last_read_stages = @ \cup { usage_stage } ]

\* UpdateRead, were every read to take a new record
UpdateRead_Appends(s, usage_index, t) ==
    LET usage_stage == PipelineStageBit(usage_index) IN
    [ s EXCEPT !.last_reads = Append(@, [ stage |-> usage_stage, barriers |-> {}, tag |-> t ]),
               !.last_read_stages = @ \cup { usage_stage } ]

UpdateRead(s, usage_index, t) ==
    LET usage_stage == PipelineStageBit(usage_index)
        fresh == [ stage |-> usage_stage, barriers |-> {}, tag |-> t ]
    IN  IF usage_stage \in s.last_read_stages
        THEN LET i == FindReadStage(s.last_reads, usage_stage, 1) IN
             IF i = 0 THEN s
             ELSE [ s EXCEPT !.last_reads[i] = fresh ]
        ELSE [ s EXCEPT !.last_reads = Append(@, fresh),
                        !.last_read_stages = @ \cup { usage_stage } ]

\* UpdateWrite, were a write to leave last_read_stages as it is
UpdateWrite_KeepsReadStages(s, usage_index, t) ==
    [ s EXCEPT !.last_reads = << >>,
               !.write_barriers = {},
               !.write_tag = t,
               !.last_write = FlagBit(usage_index) ]

\* UpdateWrite, were a write to keep the barriers granted to the write before it
UpdateWrite_KeepsBarriers(s, usage_index, t) ==
    [ s EXCEPT !.last_reads = << >>,
               !.last_read_stages = {},
               !.write_tag = t,
               !.last_write = FlagBit(usage_index) ]

UpdateWrite(s, usage_index, t) ==
    [ s EXCEPT !.last_reads = << >>,
               !.last_read_stages = {},
               !.write_barriers = {},
               !.write_tag = t,
               !.last_write = FlagBit(usage_index) ]

Update(s, usage_index, t) ==
    IF IsRead(FlagBit(usage_index)) THEN UpdateRead(s, usage_index, t)
    ELSE UpdateWrite(s, usage_index, t)

\* ApplyExecutionBarrier, were it to assign the destination stages instead of
\* adding them
ApplyExecutionBarrier_Replaces(s, srcStageMask, dstStageMask) ==
    [ s EXCEPT !.last_reads =
        [ i \in 1..Len(s.last_reads) |->
            LET access == s.last_reads[i] IN
            IF (srcStageMask \cap ({ access.stage } \cup access.barriers)) # {}
            THEN [ access EXCEPT !.barriers = dstStageMask ]
            ELSE access ] ]

\* ApplyExecutionBarrier, were it to look at the stage of a record only
ApplyExecutionBarrier_NoChain(s, srcStageMask, dstStageMask) ==
    [ s EXCEPT !.last_reads =
        [ i \in 1..Len(s.last_reads) |->
            LET access == s.last_reads[i] IN
            IF (srcStageMask \cap { access.stage }) # {}
            THEN [ access EXCEPT !.barriers = @ \cup dstStageMask ]
            ELSE access ] ]

\* ApplyExecutionBarrier, were it to extend every record whatever the source
ApplyExecutionBarrier_Unconditional(s, srcStageMask, dstStageMask) ==
    [ s EXCEPT !.last_reads =
        [ i \in 1..Len(s.last_reads) |->
            [ s.last_reads[i] EXCEPT !.barriers = @ \cup dstStageMask ] ] ]

ApplyExecutionBarrier(s, srcStageMask, dstStageMask) ==
    [ s EXCEPT !.last_reads =
        [ i \in 1..Len(s.last_reads) |->
            LET access == s.last_reads[i] IN
            IF (srcStageMask \cap ({ access.stage } \cup access.barriers)) # {}
            THEN [ access EXCEPT !.barriers = @ \cup dstStageMask ]
            ELSE access ] ]

\* ApplyMemoryBarrier, were it to assign the destination scope instead of adding it
ApplyMemoryBarrier_Overwrites(s, src_scope, dst_scope) ==
    IF (src_scope \cap (s.last_write \cup s.write_barriers)) # {}
    THEN [ s EXCEPT !.write_barriers = dst_scope ]
    ELSE s

\* ApplyMemoryBarrier, were it to look at the write access only
ApplyMemoryBarrier_NoChain(s, src_scope, dst_scope) ==
    IF (src_scope \cap s.last_write) # {}
    THEN [ s EXCEPT !.write_barriers = @ \cup dst_scope ]
    ELSE s

ApplyMemoryBarrier(s, src_scope, dst_scope) ==
    IF (src_scope \cap (s.last_write \cup s.write_barriers)) # {}
    THEN [ s EXCEPT !.write_barriers = @ \cup dst_scope ]
    ELSE s

\* ------------------------------------------------------------------------
\* Maps (std::map / std::unordered_map): functions on the set of present keys
\* ------------------------------------------------------------------------
EmptyMap == [ k \in {} |-> {} ]

MapPut(m, k, v) == [ x \in (DOMAIN m) \cup { k } |-> IF x = k THEN v ELSE m[x] ]

MapRemove(m, k) == [ x \in (DOMAIN m) \ { k } |-> m[x] ]

\* ------------------------------------------------------------------------
\* Hazard names
\* ------------------------------------------------------------------------
string_SyncHazardVUID(hazard) ==
    CASE hazard = NONE -> "SYNC-NONE"
      [] hazard = READ_AFTER_WRITE -> "SYNC-HAZARD-READ_AFTER_WRITE"
      [] hazard = WRITE_AFTER_READ -> "SYNC-HAZARD-WRITE_AFTER_READ"
      [] hazard = WRITE_AFTER_WRITE -> "SYNC-HAZARD-WRITE_AFTER_WRITE"
      [] OTHER -> "SYNC-HAZARD-INVALID"

string_SyncHazard(hazard) ==
    CASE hazard = NONE -> "NONR"
      [] hazard = READ_AFTER_WRITE -> "READ_AFTER_WRITE"
      [] hazard = WRITE_AFTER_READ -> "WRITE_AFTER_READ"
      [] hazard = WRITE_AFTER_WRITE -> "WRITE_AFTER_WRITE"
      [] OTHER -> "INVALID HAZARD"

\* ------------------------------------------------------------------------
\* SyncValidator: trackers
\* ------------------------------------------------------------------------
\* SyncValidator::tag, the tag given to every recorded access; no hook of the
\* file advances it
tag == 0

\* The command buffer map after GetAccessTracker (do_insert) or
\* GetAccessTrackerNoInsert / the const GetAccessTracker (no insert)
GetAccessTrackerImpl(cbs, command_buffer, do_insert) ==
    IF command_buffer \in DOMAIN cbs \/ ~do_insert THEN cbs
    ELSE MapPut(cbs, command_buffer, EmptyMap)

\* The tracker after ResourceAccessTracker::Get (do_insert) or
\* GetNoInsert / the const Get (no insert)
TrackerGetImpl(tracker, buffer, do_insert) ==
    IF buffer \in DOMAIN tracker \/ ~do_insert THEN tracker
    ELSE MapPut(tracker, buffer, NewResourceAccessState)

\* ResourceAccessTracker::Reset
TrackerReset(tracker) == EmptyMap

\* ResetCommandBuffer, were it to leave the tracker it finds as it is
ResetCommandBuffer_Keeps(cbs, command_buffer) == GetAccessTrackerImpl(cbs, command_buffer, FALSE)

ResetCommandBuffer(cbs, command_buffer) ==
    LET cbs1 == GetAccessTrackerImpl(cbs, command_buffer, FALSE) IN
    IF command_buffer \in DOMAIN cbs1
    THEN [ cbs1 EXCEPT ![command_buffer] = TrackerReset(@) ]
    ELSE cbs1

\* AccessScope(SyncStageAccessFlags stage_scope, VkAccessFlags accesses)
AccessScopeOfStageScope(stage_scope, accesses) == stage_scope \cap AccessScopeByAccess(accesses)

RECURSIVE ApplyMemoryBarriers(_, _, _)
ApplyMemoryBarriers(s, barrier_scope, barrier_index) ==
    IF barrier_index > Len(barrier_scope) THEN s
    ELSE ApplyMemoryBarriers(
             ApplyMemoryBarrier(s, barrier_scope[barrier_index][1], barrier_scope[barrier_index][2]),
             barrier_scope, barrier_index + 1)

ApplyGlobalBarriers(tracker, srcStageMask, dstStageMask, src_stage_scope, dst_stage_scope, pMemoryBarriers) ==
    LET barrier_scope ==
            [ i \in 1..Len(pMemoryBarriers) |->
                << AccessScopeOfStageScope(src_stage_scope, pMemoryBarriers[i].srcAccessMask),
                   AccessScopeOfStageScope(dst_stage_scope, pMemoryBarriers[i].dstAccessMask) >> ]
    IN  [ b \in DOMAIN tracker |->
            ApplyMemoryBarriers(ApplyExecutionBarrier(tracker[b], srcStageMask, dstStageMask),
                                barrier_scope, 1) ]

RECURSIVE ApplyBufferBarriers(_, _, _, _, _)
ApplyBufferBarriers(tracker, src_stage_scope, dst_stage_scope, barriers, index) ==
    IF index > Len(barriers) THEN tracker
    ELSE LET barrier == barriers[index]
             tracker1 == TrackerGetImpl(tracker, barrier.buffer, FALSE)
         IN  IF barrier.buffer \notin DOMAIN tracker1
             THEN ApplyBufferBarriers(tracker1, src_stage_scope, dst_stage_scope, barriers, index + 1)
             ELSE ApplyBufferBarriers(
                      [ tracker1 EXCEPT ![barrier.buffer] =
                          ApplyMemoryBarrier(@,
                              AccessScopeOfStageScope(src_stage_scope, barrier.srcAccessMask),
                              AccessScopeOfStageScope(dst_stage_scope, barrier.dstAccessMask)) ],
                      src_stage_scope, dst_stage_scope, barriers, index + 1)

ApplyImageBarriers(tracker, src_stage_scope, dst_stage_scope, pImageMemoryBarriers) == tracker

\* SyncValidator::DetectHazard, were it to query a zeroed state for a buffer
\* without an entry
SyncValidator_DetectHazard_ZeroState(tracker, current_usage, buffer) ==
    LET tracker1 == TrackerGetImpl(tracker, buffer, FALSE) IN
    IF buffer \in DOMAIN tracker1 THEN DetectHazard(tracker1[buffer], current_usage)
    ELSE DetectHazard([ NewResourceAccessState EXCEPT !.write_barriers = {} ], current_usage)

\* SyncValidator::DetectHazard(tracker, current_usage, buffer, region)
SyncValidator_DetectHazard(tracker, current_usage, buffer) ==
    LET tracker1 == TrackerGetImpl(tracker, buffer, FALSE) IN
    IF buffer \in DOMAIN tracker1 THEN DetectHazard(tracker1[buffer], current_usage)
    ELSE NoHazard

UpdateAccessState(tracker, current_usage, buffer) ==
    LET tracker1 == TrackerGetImpl(tracker, buffer, TRUE) IN
    [ tracker1 EXCEPT ![buffer] = Update(@, current_usage, tag) ]

\* ------------------------------------------------------------------------
\* SyncValidator: copy
\* ------------------------------------------------------------------------
\* one log_msg call
Report(buffer, which, hazard, region) ==
    [ object |-> buffer, which |-> which, vuid |-> string_SyncHazardVUID(hazard),
      hazard |-> string_SyncHazard(hazard), region |-> region ]

\* The region loop of PreCallValidateCmdCopyBuffer; region counts from 0, and
\* log_ret[region + 1] is what log_msg returns when called for that region.
RECURSIVE ValidateCopyLoop(_, _, _, _, _, _, _)
ValidateCopyLoop(tracker, srcBuffer, dstBuffer, regionCount, log_ret, region, out) ==
    IF region >= regionCount THEN out
    ELSE LET src_hazard == SyncValidator_DetectHazard(tracker, SYNC_TRANSFER_TRANSFER_READ, srcBuffer)
             dst_hazard == SyncValidator_DetectHazard(tracker, SYNC_TRANSFER_TRANSFER_WRITE, dstBuffer)
             out1 == IF src_hazard.hazard # NONE
                     THEN [ skip |-> out.skip \/ log_ret[region + 1],
                            reports |-> Append(out.reports,
                                               Report(srcBuffer, "srcBuffer", src_hazard.hazard, region)) ]
                     ELSE IF dst_hazard.hazard # NONE
                          THEN [ skip |-> out.skip \/ log_ret[region + 1],
                                 reports |-> Append(out.reports,
                                                    Report(dstBuffer, "dstBuffer", dst_hazard.hazard, region)) ]
                          ELSE out
         IN  IF out1.skip THEN out1
             ELSE ValidateCopyLoop(tracker, srcBuffer, dstBuffer, regionCount, log_ret, region + 1, out1)

\* ValidateCopyLookups, were the lookups made through the non-const accessors
ValidateCopyLookups_Inserting(cbs, commandBuffer, srcBuffer, dstBuffer) ==
    LET cbs1 == GetAccessTrackerImpl(cbs, commandBuffer, TRUE) IN
    [ cbs1 EXCEPT ![commandBuffer] =
        TrackerGetImpl(TrackerGetImpl(@, srcBuffer, TRUE), dstBuffer, TRUE) ]

\* The command buffer map after the lookups PreCallValidateCmdCopyBuffer makes
\* through const_this and the const tracker
ValidateCopyLookups(cbs, commandBuffer, srcBuffer, dstBuffer) ==
    LET cbs1 == GetAccessTrackerImpl(cbs, commandBuffer, FALSE) IN
    IF commandBuffer \in DOMAIN cbs1
    THEN [ cbs1 EXCEPT ![commandBuffer] =
             TrackerGetImpl(TrackerGetImpl(@, srcBuffer, FALSE), dstBuffer, FALSE) ]
    ELSE cbs1

\* returns skip, the reports made and the command buffer map afterwards
PreCallValidateCmdCopyBuffer(cbs, commandBuffer, srcBuffer, dstBuffer, regionCount, log_ret) ==
    LET cbs1 == ValidateCopyLookups(cbs, commandBuffer, srcBuffer, dstBuffer)
        out == IF commandBuffer \in DOMAIN cbs1
               THEN ValidateCopyLoop(cbs1[commandBuffer], srcBuffer, dstBuffer, regionCount,
                                     log_ret, 0, [ skip |-> FALSE, reports |-> << >> ])
               ELSE [ skip |-> FALSE, reports |-> << >> ]
    IN  [ skip |-> out.skip, reports |-> out.reports, cbs |-> cbs1 ]

\* RecordCopyLoop, were the destination write recorded before the source read
RECURSIVE RecordCopyLoop_WriteFirst(_, _, _, _, _)
RecordCopyLoop_WriteFirst(tracker, srcBuffer, dstBuffer, regionCount, region) ==
    IF region >= regionCount THEN tracker
    ELSE RecordCopyLoop_WriteFirst(
             UpdateAccessState(UpdateAccessState(tracker, SYNC_TRANSFER_TRANSFER_WRITE, dstBuffer),
                               SYNC_TRANSFER_TRANSFER_READ, srcBuffer),
             srcBuffer, dstBuffer, regionCount, region + 1)

RECURSIVE RecordCopyLoop(_, _, _, _, _)
RecordCopyLoop(tracker, srcBuffer, dstBuffer, regionCount, region) ==
    IF region >= regionCount THEN tracker
    ELSE RecordCopyLoop(
             UpdateAccessState(UpdateAccessState(tracker, SYNC_TRANSFER_TRANSFER_READ, srcBuffer),
                               SYNC_TRANSFER_TRANSFER_WRITE, dstBuffer),
             srcBuffer, dstBuffer, regionCount, region + 1)

PreCallRecordCmdCopyBuffer(cbs, commandBuffer, srcBuffer, dstBuffer, regionCount) ==
    LET cbs1 == GetAccessTrackerImpl(cbs, commandBuffer, TRUE) IN
    [ cbs1 EXCEPT ![commandBuffer] = RecordCopyLoop(@, srcBuffer, dstBuffer, regionCount, 0) ]

\* ------------------------------------------------------------------------
\* SyncValidator: pipeline barrier
\* ------------------------------------------------------------------------
PreCallValidateCmdPipelineBarrier(cbs, commandBuffer) == [ skip |-> FALSE, reports |-> << >>, cbs |-> cbs ]

\* PreCallRecordCmdPipelineBarrier, were the global pass to come first
PreCallRecordCmdPipelineBarrier_GlobalFirst(cbs, commandBuffer, srcStageMask, dstStageMask, pMemoryBarriers, pBufferMemoryBarriers, pImageMemoryBarriers) ==
    LET cbs1 == GetAccessTrackerImpl(cbs, commandBuffer, TRUE)
        src_stage_scope == AccessScopeByStage(srcStageMask)
        dst_stage_scope == AccessScopeByStage(dstStageMask)
        t1 == ApplyGlobalBarriers(cbs1[commandBuffer], srcStageMask, dstStageMask, src_stage_scope,
                                  dst_stage_scope, pMemoryBarriers)
        t2 == ApplyBufferBarriers(t1, src_stage_scope, dst_stage_scope, pBufferMemoryBarriers, 1)
        t3 == ApplyImageBarriers(t2, src_stage_scope, dst_stage_scope, pImageMemoryBarriers)
    IN  [ cbs1 EXCEPT ![commandBuffer] = t3 ]

PreCallRecordCmdPipelineBarrier(cbs, commandBuffer, srcStageMask, dstStageMask, pMemoryBarriers, pBufferMemoryBarriers, pImageMemoryBarriers) ==
    LET cbs1 == GetAccessTrackerImpl(cbs, commandBuffer, TRUE)
        src_stage_scope == AccessScopeByStage(srcStageMask)
        dst_stage_scope == AccessScopeByStage(dstStageMask)
        t1 == ApplyBufferBarriers(cbs1[commandBuffer], src_stage_scope, dst_stage_scope,
                                  pBufferMemoryBarriers, 1)
        t2 == ApplyImageBarriers(t1, src_stage_scope, dst_stage_scope, pImageMemoryBarriers)
        t3 == ApplyGlobalBarriers(t2, srcStageMask, dstStageMask, src_stage_scope, dst_stage_scope,
                                  pMemoryBarriers)
    IN  [ cbs1 EXCEPT ![commandBuffer] = t3 ]

\* ------------------------------------------------------------------------
\* State
\* ------------------------------------------------------------------------
VARIABLES
    access,           \* SpecState: the ResourceAccessState under test
    query,            \* SpecState: the last DetectHazard call and its result
    hist,             \* SpecState: what the calls so far were (history only)
    bhist,            \* SpecBarriers: what the calls so far were (history only)
    cb_access_state,  \* Spec: SyncValidator's command buffer -> tracker map
    reports,          \* Spec: the log_msg calls of the last validate call
    skip,             \* Spec: the value the last validate call returned
    last_call,        \* Spec: the last hook called, with its arguments
    fresh_twin,       \* Spec: per command buffer, a never-touched validator
                      \*       that has received the calls made since the reset
    barrier_call      \* Spec: if the last hook was the recording of a pipeline
                      \*       barrier, what it is to leave (history only)

vars == << access, query, hist, bhist, cb_access_state, reports, skip, last_call, fresh_twin, barrier_call >>

stateVars == << access, query, hist, bhist >>
validatorVars == << cb_access_state, reports, skip, last_call, fresh_twin, barrier_call >>

\* ------------------------------------------------------------------------
\* SpecState: one ResourceAccessState, called with arbitrary arguments
\* ------------------------------------------------------------------------
Tags == 1..MaxTag

\* single stages and the all-stages mask
StageMasks == { m \in SUBSET PipelineStages : Cardinality(m) \in { 1, Cardinality(PipelineStages) } }

\* single stage/access bits and the all-bits scope
ScopeMasks == { m \in SUBSET AllStageAccess : Cardinality(m) \in { 1, Cardinality(AllStageAccess) } }

NoBarrierCall == [ on |-> FALSE, expect |-> EmptyMap, untracked |-> FALSE, global |-> FALSE ]

NoQuery == [ usage |-> -1, result |-> NoHazard ]

NoStage == "none"

NoChain == [ phase |-> 0, stage |-> NoStage, d |-> {}, d2 |-> {} ]

NoMemoryBarrier == [ kind |-> "none", expect |-> {} ]

\* the pipeline stages that have a write usage
WriteStages ==
    { PipelineStageBit(u) : u \in { v \in SyncStageAccessIndex : ~IsRead(FlagBit(v)) } }

NoRestart == [ on |-> FALSE, stage |-> NoStage, tag |-> DefaultTag, d |-> {} ]

\* the barriers of the record of last_reads for the stage, {} if there is none
BarriersOfStage(reads, stage) ==
    UNION { reads[i].barriers : i \in { j \in 1..Len(reads) : reads[j].stage = stage } }

InitHist ==
    [ written |-> FALSE,   \* a write Update has been made
      wfresh |-> FALSE,    \* a write Update has been made and no barrier applied since
      wtag |-> DefaultTag, \*   its tag
      wacc |-> -1,         \*   its usage index
      wonly |-> FALSE,     \* since the last write Update only barriers were applied
      granted |-> {},      \*   union of the dst scopes of the memory barriers since,
                           \*   whose src scope contains the write's access
      rfresh |-> FALSE,    \* the last Update was a read and no barrier applied since
      rstage |-> NoStage,  \*   its stage
      rtags |-> [ st \in PipelineStages |-> DefaultTag ],
                           \* per stage, tag of the latest read since the last write
      collapsed |-> FALSE, \* since the last write, some stage was read twice
      xdisjoint |-> FALSE ]
                           \* the last call was an execution barrier whose srcStageMask
                           \* met neither the stage nor the barriers of any read record

InitBarrierHist ==
    [ written |-> FALSE,   \* a write Update has been made
      nwbarrier |-> FALSE, \* a memory barrier was applied and no write recorded yet
      chain |-> NoChain,   \* the calls since the last read Update, while they are
                           \*   phase 1: none (the read was at chain.stage)
                           \*   phase 2: one execution barrier, its source containing
                           \*            the stage; d is its destination D1
                           \*   phase 3: then one whose source meets D1 but not the
                           \*            stage; d2 is its destination D2, d is D1 and D2
      mb |-> NoMemoryBarrier,
                           \* the last mutating call, if a memory barrier: whether its
                           \* source met last_write ("hit"), only write_barriers
                           \* ("chain") or neither ("miss"), and the write_barriers
                           \* it is to leave
      restart |-> NoRestart ]
                           \* the last mutating call, if a read Update with tag at a
                           \* stage whose record had barriers: d is the stages among
                           \* them that have a write usage

StateUpdate(usage_index, t) ==
    /\ access' = Update(access, usage_index, t)
    /\ query' = NoQuery
    /\ hist' = IF IsRead(FlagBit(usage_index))
               THEN [ hist EXCEPT !.wonly = FALSE, !.granted = {},
                                  !.xdisjoint = FALSE,
                                  !.collapsed =
                                      @ \/ hist.rtags[PipelineStageBit(usage_index)] # DefaultTag,
                                  !.rfresh = TRUE,
                                  !.rstage = PipelineStageBit(usage_index),
                                  !.rtags[PipelineStageBit(usage_index)] = t ]
               ELSE [ hist EXCEPT !.written = TRUE, !.wfresh = TRUE, !.wtag = t,
                                  !.wacc = usage_index,
                                  !.wonly = TRUE, !.granted = {},
                                  !.xdisjoint = FALSE, !.collapsed = FALSE,
                                  !.rfresh = FALSE, !.rstage = NoStage,
                                  !.rtags = [ st \in PipelineStages |-> DefaultTag ] ]
    /\ UNCHANGED bhist
    /\ UNCHANGED validatorVars

StateApplyExecutionBarrier(srcStageMask, dstStageMask) ==
    /\ access' = ApplyExecutionBarrier(access, srcStageMask, dstStageMask)
    /\ query' = NoQuery
    /\ hist' = [ hist EXCEPT !.wfresh = FALSE, !.rfresh = FALSE,
                             !.rstage = NoStage,
                             !.xdisjoint =
                                 \A i \in 1..Len(access.last_reads) :
                                     /\ access.last_reads[i].stage \notin srcStageMask
                                     /\ access.last_reads[i].barriers \cap srcStageMask = {} ]
    /\ UNCHANGED bhist
    /\ UNCHANGED validatorVars

StateApplyMemoryBarrier(src_scope, dst_scope) ==
    /\ access' = ApplyMemoryBarrier(access, src_scope, dst_scope)
    /\ query' = NoQuery
    /\ hist' = [ hist EXCEPT !.wfresh = FALSE, !.rfresh = FALSE,
                             !.rstage = NoStage,
                             !.xdisjoint = FALSE,
                             !.granted = IF hist.wonly /\ hist.wacc \in src_scope
                                         THEN @ \cup dst_scope ELSE @ ]
    /\ UNCHANGED bhist
    /\ UNCHANGED validatorVars

StateDetectHazard(usage_index) ==
    /\ query' = [ usage |-> usage_index, result |-> DetectHazard(access, usage_index) ]
    /\ hist' = [ hist EXCEPT !.xdisjoint = FALSE ]
    /\ UNCHANGED access
    /\ UNCHANGED bhist
    /\ UNCHANGED validatorVars

NextState ==
    \/ \E u \in SyncStageAccessIndex, t \in Tags : StateUpdate(u, t)
    \/ \E src \in StageMasks, dst \in StageMasks : StateApplyExecutionBarrier(src, dst)
    \/ \E src \in ScopeMasks, dst \in ScopeMasks : StateApplyMemoryBarrier(src, dst)
    \/ \E u \in SyncStageAccessIndex : StateDetectHazard(u)

Init ==
    /\ access = NewResourceAccessState
    /\ query = NoQuery
    /\ hist = InitHist
    /\ bhist = InitBarrierHist
    /\ cb_access_state = EmptyMap
    /\ reports = << >>
    /\ skip = FALSE
    /\ last_call = [ hook |-> "none", commandBuffer |-> "none", srcBuffer |-> "none",
                     dstBuffer |-> "none", regionCount |-> 0, untracked |-> FALSE,
                     flagged |-> FALSE ]
    /\ fresh_twin = [ reset |-> {}, cbs |-> EmptyMap ]
    /\ barrier_call = NoBarrierCall

SpecState == Init /\ [][NextState]_vars

\* ------------------------------------------------------------------------
\* SpecBarriers: the same ResourceAccessState and calls, with the history the
\* statements about chained barriers and restarted reads speak of
\* ------------------------------------------------------------------------
BarrierUpdate(usage_index, t) ==
    /\ access' = Update(access, usage_index, t)
    /\ query' = NoQuery
    /\ bhist' = IF IsRead(FlagBit(usage_index))
                THEN [ bhist EXCEPT
                         !.mb = NoMemoryBarrier,
                         !.chain = [ phase |-> 1, stage |-> PipelineStageBit(usage_index),
                                     d |-> {}, d2 |-> {} ],
                         !.restart =
                             LET d == BarriersOfStage(access.last_reads,
                                                      PipelineStageBit(usage_index))
                             IN  IF d # {}
                                 THEN [ on |-> TRUE, stage |-> PipelineStageBit(usage_index),
                                        tag |-> t, d |-> d \cap WriteStages ]
                                 ELSE NoRestart ]
                ELSE [ bhist EXCEPT !.written = TRUE, !.nwbarrier = FALSE,
                                    !.mb = NoMemoryBarrier, !.chain = NoChain,
                                    !.restart = NoRestart ]
    /\ UNCHANGED hist
    /\ UNCHANGED validatorVars

BarrierApplyExecutionBarrier(srcStageMask, dstStageMask) ==
    /\ access' = ApplyExecutionBarrier(access, srcStageMask, dstStageMask)
    /\ query' = NoQuery
    /\ bhist' = [ bhist EXCEPT
                    !.mb = NoMemoryBarrier, !.restart = NoRestart,
                    !.chain =
                        IF bhist.chain.phase = 1 /\ bhist.chain.stage \in srcStageMask
                        THEN [ bhist.chain EXCEPT !.phase = 2, !.d = dstStageMask ]
                        ELSE IF /\ bhist.chain.phase = 2
                                /\ bhist.chain.d \cap srcStageMask # {}
                                /\ bhist.chain.stage \notin srcStageMask
                             THEN [ bhist.chain EXCEPT !.phase = 3,
                                                       !.d = @ \cup dstStageMask,
                                                       !.d2 = dstStageMask ]
                             ELSE NoChain ]
    /\ UNCHANGED hist
    /\ UNCHANGED validatorVars

BarrierApplyMemoryBarrier(src_scope, dst_scope) ==
    /\ access' = ApplyMemoryBarrier(access, src_scope, dst_scope)
    /\ query' = NoQuery
    /\ bhist' = [ bhist EXCEPT
                    !.chain = NoChain, !.restart = NoRestart,
                    !.nwbarrier = ~bhist.written,
                    !.mb =
                        IF src_scope \cap access.last_write # {}
                        THEN [ kind |-> "hit",
                               expect |-> access.write_barriers \cup dst_scope ]
                        ELSE IF src_scope \cap access.write_barriers # {}
                             THEN [ kind |-> "chain",
                                    expect |-> access.write_barriers \cup dst_scope ]
                             ELSE [ kind |-> "miss", expect |-> access.write_barriers ] ]
    /\ UNCHANGED hist
    /\ UNCHANGED validatorVars

BarrierDetectHazard(usage_index) ==
    /\ query' = [ usage |-> usage_index, result |-> DetectHazard(access, usage_index) ]
    /\ bhist' = [ bhist EXCEPT
                    !.mb = NoMemoryBarrier,
                    !.chain = IF bhist.chain.phase = 3 THEN bhist.chain ELSE NoChain ]
    /\ UNCHANGED access
    /\ UNCHANGED hist
    /\ UNCHANGED validatorVars

NextBarriers ==
    \/ \E u \in SyncStageAccessIndex, t \in Tags : BarrierUpdate(u, t)
    \/ \E src \in StageMasks, dst \in StageMasks : BarrierApplyExecutionBarrier(src, dst)
    \/ \E src \in ScopeMasks, dst \in ScopeMasks : BarrierApplyMemoryBarrier(src, dst)
    \/ \E u \in SyncStageAccessIndex : BarrierDetectHazard(u)

SpecBarriers == Init /\ [][NextBarriers]_vars

\* ------------------------------------------------------------------------
\* Spec: the SyncValidator hooks
\* ------------------------------------------------------------------------
CommandBuffers == { "cb1" }

Buffers == { "bufA", "bufB" }

NoBuffer == "none"

RegionCounts == 0..MaxRegions

\* what log_msg returns for each region it is called for
LogReturns(regionCount) == [ 1..regionCount -> BOOLEAN ]

\* srcStageMask / dstStageMask of the pipeline barriers recorded
SrcStageMasks ==
    { { VK_PIPELINE_STAGE_COMPUTE_SHADER_BIT }, { VK_PIPELINE_STAGE_TRANSFER_BIT }, PipelineStages }

DstStageMasks ==
    { { VK_PIPELINE_STAGE_COMPUTE_SHADER_BIT }, { VK_PIPELINE_STAGE_TRANSFER_BIT } }

\* srcAccessMask / dstAccessMask of their memory barriers
AccessMaskPairs ==
    { [ srcAccessMask |-> { VK_ACCESS_TRANSFER_WRITE_BIT }, dstAccessMask |-> { VK_ACCESS_TRANSFER_READ_BIT } ],
      [ srcAccessMask |-> { VK_ACCESS_SHADER_READ_BIT, VK_ACCESS_TRANSFER_READ_BIT },
        dstAccessMask |-> { VK_ACCESS_TRANSFER_WRITE_BIT } ] }

\* pMemoryBarriers with memoryBarrierCount in 0..1
MemoryBarrierLists == { << >> } \cup { << b >> : b \in AccessMaskPairs }

\* pBufferMemoryBarriers with bufferMemoryBarrierCount in 0..1
BufferBarrierLists ==
    { << >> } \cup
    { << [ buffer |-> buf, srcAccessMask |-> b.srcAccessMask, dstAccessMask |-> b.dstAccessMask ] >> :
        buf \in Buffers, b \in AccessMaskPairs }

\* untracked: (ValidateCopy) neither buffer had a tracker entry when called
\* flagged:   (RecordCopy) the call follows a validation of the same copy that
\*            reported a hazard
Call(hook, commandBuffer, srcBuffer, dstBuffer, regionCount, untracked, flagged) ==
    [ hook |-> hook, commandBuffer |-> commandBuffer, srcBuffer |-> srcBuffer,
      dstBuffer |-> dstBuffer, regionCount |-> regionCount, untracked |-> untracked,
      flagged |-> flagged ]

Tracked(cbs, cb, buffer) == cb \in DOMAIN cbs /\ buffer \in DOMAIN cbs[cb]

\* What the recording of a pipeline barrier is to leave in the validator: each
\* buffer that has an entry in the tracker of the command buffer receives the
\* buffer barriers that name it, then the execution barrier, then the memory
\* barriers; no buffer gains or loses an entry.
ExpectedAfterBarrier(cbs, cb, srcStageMask, dstStageMask, pMemoryBarriers, pBufferMemoryBarriers) ==
    LET tracker == IF cb \in DOMAIN cbs THEN cbs[cb] ELSE EmptyMap
        Scopes(barrier) ==
            << AccessScopeByStage(srcStageMask) \cap AccessScopeByAccess(barrier.srcAccessMask),
               AccessScopeByStage(dstStageMask) \cap AccessScopeByAccess(barrier.dstAccessMask) >>
        ScopesOf(barriers) == [ i \in 1..Len(barriers) |-> Scopes(barriers[i]) ]
        After(buffer) ==
            LET Names(barrier) == barrier.buffer = buffer
                s1 == ApplyMemoryBarriers(tracker[buffer],
                                          ScopesOf(SelectSeq(pBufferMemoryBarriers, Names)), 1)
                s2 == ApplyExecutionBarrier(s1, srcStageMask, dstStageMask)
            IN  ApplyMemoryBarriers(s2, ScopesOf(pMemoryBarriers), 1)
    IN  MapPut(cbs, cb, [ buffer \in DOMAIN tracker |-> After(buffer) ])

\* the twin of a command buffer that has been reset receives the same calls
TwinAfter(cb, twin_cbs) ==
    IF cb \in fresh_twin.reset THEN [ fresh_twin EXCEPT !.cbs = twin_cbs ] ELSE fresh_twin

ValidateCopy(cb, srcBuffer, dstBuffer, regionCount, log_ret) ==
    LET r == PreCallValidateCmdCopyBuffer(cb_access_state, cb, srcBuffer, dstBuffer, regionCount, log_ret)
        tw == PreCallValidateCmdCopyBuffer(fresh_twin.cbs, cb, srcBuffer, dstBuffer, regionCount, log_ret)
    IN  /\ cb_access_state' = r.cbs
        /\ reports' = r.reports
        /\ skip' = r.skip
        /\ last_call' = Call("ValidateCopy", cb, srcBuffer, dstBuffer, regionCount,
                             ~Tracked(cb_access_state, cb, srcBuffer)
                               /\ ~Tracked(cb_access_state, cb, dstBuffer),
                             FALSE)
        /\ fresh_twin' = TwinAfter(cb, tw.cbs)
        /\ barrier_call' = NoBarrierCall
        /\ UNCHANGED stateVars

RecordCopy(cb, srcBuffer, dstBuffer, regionCount) ==
    /\ cb_access_state' = PreCallRecordCmdCopyBuffer(cb_access_state, cb, srcBuffer, dstBuffer, regionCount)
    /\ reports' = << >>
    /\ skip' = FALSE
    /\ last_call' = Call("RecordCopy", cb, srcBuffer, dstBuffer, regionCount, FALSE,
                         /\ last_call.hook = "ValidateCopy"
                         /\ last_call.commandBuffer = cb
                         /\ last_call.srcBuffer = srcBuffer
                         /\ last_call.dstBuffer = dstBuffer
                         /\ last_call.regionCount = regionCount
                         /\ reports # << >>)
    /\ fresh_twin' = TwinAfter(cb, PreCallRecordCmdCopyBuffer(fresh_twin.cbs, cb, srcBuffer, dstBuffer,
                                                              regionCount))
    /\ barrier_call' = NoBarrierCall
    /\ UNCHANGED stateVars

ValidatePipelineBarrier(cb) ==
    LET r == PreCallValidateCmdPipelineBarrier(cb_access_state, cb)
        tw == PreCallValidateCmdPipelineBarrier(fresh_twin.cbs, cb)
    IN  /\ cb_access_state' = r.cbs
        /\ reports' = r.reports
        /\ skip' = r.skip
        /\ last_call' = Call("ValidatePipelineBarrier", cb, NoBuffer, NoBuffer, 0, FALSE, FALSE)
        /\ fresh_twin' = TwinAfter(cb, tw.cbs)
        /\ barrier_call' = NoBarrierCall
        /\ UNCHANGED stateVars

RecordPipelineBarrier(cb, srcStageMask, dstStageMask, pMemoryBarriers, pBufferMemoryBarriers) ==
    /\ cb_access_state' = PreCallRecordCmdPipelineBarrier(cb_access_state, cb, srcStageMask, dstStageMask,
                                                          pMemoryBarriers, pBufferMemoryBarriers, << >>)
    /\ reports' = << >>
    /\ skip' = FALSE
    /\ last_call' = Call("RecordPipelineBarrier", cb, NoBuffer, NoBuffer, 0, FALSE, FALSE)
    /\ fresh_twin' = TwinAfter(cb, PreCallRecordCmdPipelineBarrier(fresh_twin.cbs, cb, srcStageMask,
                                   dstStageMask, pMemoryBarriers, pBufferMemoryBarriers, << >>))
    /\ barrier_call' =
          [ on |-> TRUE,
            expect |-> ExpectedAfterBarrier(cb_access_state, cb, srcStageMask, dstStageMask,
                                            pMemoryBarriers, pBufferMemoryBarriers),
            untracked |-> \E i \in 1..Len(pBufferMemoryBarriers) :
                              ~Tracked(cb_access_state, cb, pBufferMemoryBarriers[i].buffer),
            global |-> pMemoryBarriers # << >> ]
    /\ UNCHANGED stateVars

\* the command buffer reset callback; the twin starts over as a validator that
\* has never seen the command buffer
CommandBufferReset(cb) ==
    /\ cb_access_state' = ResetCommandBuffer(cb_access_state, cb)
    /\ reports' = << >>
    /\ skip' = FALSE
    /\ last_call' = Call("ResetCommandBuffer", cb, NoBuffer, NoBuffer, 0, FALSE, FALSE)
    /\ fresh_twin' = [ reset |-> fresh_twin.reset \cup { cb }, cbs |-> MapRemove(fresh_twin.cbs, cb) ]
    /\ barrier_call' = NoBarrierCall
    /\ UNCHANGED stateVars

Next ==
    \/ \E cb \in CommandBuffers, src \in Buffers, dst \in Buffers, n \in RegionCounts :
          \E log_ret \in LogReturns(n) : ValidateCopy(cb, src, dst, n, log_ret)
    \/ \E cb \in CommandBuffers, src \in Buffers, dst \in Buffers, n \in RegionCounts :
          RecordCopy(cb, src, dst, n)
    \/ \E cb \in CommandBuffers : ValidatePipelineBarrier(cb)
    \/ \E cb \in CommandBuffers, src \in SrcStageMasks, dst \in DstStageMasks,
          mb \in MemoryBarrierLists, bb \in BufferBarrierLists :
          RecordPipelineBarrier(cb, src, dst, mb, bb)
    \/ \E cb \in CommandBuffers : CommandBufferReset(cb)

Spec == Init /\ [][Next]_vars

\* ------------------------------------------------------------------------
\* Properties of ResourceAccessState (checked under SpecState)
\* ------------------------------------------------------------------------
Queried == query # NoQuery

QueryIsRead == Queried /\ IsRead(FlagBit(query.usage))

QueryIsWrite == Queried /\ ~IsRead(FlagBit(query.usage))

\* C1: once a write with tag t has been recorded and no barrier has been applied
\* since, whatever came before, DetectHazard reports a hazard carrying t:
\* WriteAfterWrite for a write usage, ReadAfterWrite for a read usage.
C1_WriteThenAccess ==
    (hist.wfresh /\ Queried) =>
        query.result = HazardResult(IF QueryIsRead THEN READ_AFTER_WRITE ELSE WRITE_AFTER_WRITE,
                                    hist.wtag)

C1_Witness ==
    /\ hist.wfresh /\ QueryIsWrite
    /\ hist.wtag = MaxTag
    /\ query.result = HazardResult(WRITE_AFTER_WRITE, MaxTag)

\* C2 as stated: on a resource with no recorded write, after a read at stage S
\* with tag t and no barrier since, DetectHazard for a write usage reports
\* WriteAfterRead with tag t.
\* the tag of the read recorded by the last Update
LastReadTag == hist.rtags[hist.rstage]

C2_ReadThenWrite_Original ==
    (~hist.written /\ hist.rfresh /\ QueryIsWrite) =>
        query.result = HazardResult(WRITE_AFTER_READ, LastReadTag)

\* the read records, in stored order, whose barriers do not cover the stage
Uncovered(usage_stage) ==
    { i \in 1..Len(access.last_reads) : usage_stage \notin access.last_reads[i].barriers }

FirstUncovered(usage_stage) ==
    CHOOSE i \in Uncovered(usage_stage) : \A j \in Uncovered(usage_stage) : i <= j

\* C2 amended: in that situation DetectHazard for a write usage reports
\* WriteAfterRead, with the tag of the latest read at the stage of the first
\* stored record whose granted scope does not cover the write's stage; that is
\* t when no record stored before the one of S is still uncovered.
C2_ReadThenWrite ==
    (~hist.written /\ hist.rfresh /\ QueryIsWrite) =>
        LET usage_stage == PipelineStageBit(query.usage) IN
        /\ Uncovered(usage_stage) # {}
        /\ LET first == access.last_reads[FirstUncovered(usage_stage)] IN
           /\ query.result = HazardResult(WRITE_AFTER_READ, hist.rtags[first.stage])
           /\ first.stage = hist.rstage => query.result.tag = LastReadTag

C2_Witness ==
    /\ ~hist.written /\ hist.rfresh /\ QueryIsWrite
    /\ Len(access.last_reads) = 2
    /\ access.last_reads[1].barriers # {}
    /\ query.result = HazardResult(WRITE_AFTER_READ, LastReadTag)

\* C3: after a write with access A followed only by barriers, among them memory
\* barriers whose source scope contains A, DetectHazard for a read usage whose
\* stage/access bit lies in the destination scope of one of those reports NONE.
C3_BarrieredRead ==
    (hist.wonly /\ QueryIsRead /\ query.usage \in hist.granted) =>
        query.result.hazard = NONE

C3_Witness ==
    /\ hist.wonly /\ QueryIsRead
    /\ query.usage \in hist.granted
    /\ hist.granted # AllStageAccess
    /\ query.result = NoHazard

\* C5: a resource holds at most one read record per pipeline stage, one for
\* each stage read since the last write, and the record's tag is that of the
\* most recent read at its stage since the last write.
C5_OneReadPerStage ==
    LET reads == access.last_reads IN
    /\ \A i, j \in 1..Len(reads) : reads[i].stage = reads[j].stage => i = j
    /\ \A i \in 1..Len(reads) : reads[i].tag = hist.rtags[reads[i].stage]
    /\ { reads[i].stage : i \in 1..Len(reads) }
         = { st \in PipelineStages : hist.rtags[st] # DefaultTag }

C5_Witness ==
    /\ hist.collapsed /\ hist.rfresh
    /\ Len(access.last_reads) = 2
    /\ access.last_reads[1].stage = hist.rstage
    /\ access.last_reads[1].tag = MaxTag
    /\ access.last_reads[2].tag # MaxTag

\* C6: an execution barrier whose srcStageMask meets neither the stage nor the
\* granted barrier scope of any read record leaves every read record (stage,
\* tag and granted scope) unchanged.
C6_DisjointBarrierNoEffect ==
    [][ hist'.xdisjoint => access'.last_reads = access.last_reads ]_vars

C6_Witness ==
    /\ hist.xdisjoint
    /\ Len(access.last_reads) = 2
    /\ access.last_reads[1].barriers # {}
    /\ access.last_reads[2].barriers = {}

\* ------------------------------------------------------------------------
\* Properties of the SyncValidator hooks (checked under Spec)
\* ------------------------------------------------------------------------
ValidateCopyResult(cbs, cb, src, dst, n, log_ret) ==
    LET r == PreCallValidateCmdCopyBuffer(cbs, cb, src, dst, n, log_ret) IN
    [ skip |-> r.skip, reports |-> r.reports ]

\* C4: after a command buffer reset, whatever copies and barriers are recorded
\* next, every copy validation on that command buffer gives the result (skip
\* and reports) it gives on a validator that never saw the command buffer and
\* received the same calls.
C4_ResetIsFresh ==
    \A cb \in fresh_twin.reset :
        \A src \in Buffers, dst \in Buffers, n \in RegionCounts :
            \A log_ret \in LogReturns(n) :
                ValidateCopyResult(cb_access_state, cb, src, dst, n, log_ret)
                    = ValidateCopyResult(fresh_twin.cbs, cb, src, dst, n, log_ret)

C4_Witness ==
    /\ "cb1" \in fresh_twin.reset
    /\ last_call.hook = "ValidateCopy"
    /\ Len(reports) = 1
    /\ reports[1].which = "dstBuffer"
    /\ \E b \in DOMAIN cb_access_state["cb1"] :
          \E i \in 1..Len(cb_access_state["cb1"][b].last_reads) :
              cb_access_state["cb1"][b].last_reads[i].barriers # {}

\* C7 as stated: a copy validation emits at most one hazard report per call.
C7_SingleReport ==
    last_call.hook = "ValidateCopy" => Len(reports) <= 1

\* C8: the validate hooks leave the trackers as they were: the same command
\* buffers and buffers are tracked, with the same access states.
C8_ValidateDoesNotMutate ==
    [][ last_call'.hook \in { "ValidateCopy", "ValidatePipelineBarrier" }
          => cb_access_state' = cb_access_state ]_vars

C8_Witness ==
    /\ last_call.hook = "ValidateCopy"
    /\ last_call.regionCount >= 1
    /\ "cb1" \in DOMAIN cb_access_state
    /\ last_call.srcBuffer \notin DOMAIN cb_access_state["cb1"]
    /\ last_call.dstBuffer \in DOMAIN cb_access_state["cb1"]
    /\ Len(reports) >= 1

\* C9: a hazard query for a buffer without a tracker entry gives NONE for the
\* read and the write usage, and a copy validation whose two buffers are both
\* untracked reports nothing and returns false.
C9_UntrackedIsNone ==
    /\ \A cb \in DOMAIN cb_access_state, b \in Buffers, u \in SyncStageAccessIndex :
          b \notin DOMAIN cb_access_state[cb]
              => SyncValidator_DetectHazard(cb_access_state[cb], u, b).hazard = NONE
    /\ (last_call.hook = "ValidateCopy" /\ last_call.untracked)
          => (reports = << >> /\ skip = FALSE)

C9_Witness ==
    /\ last_call.hook = "ValidateCopy" /\ last_call.untracked
    /\ last_call.regionCount = MaxRegions
    /\ last_call.srcBuffer # last_call.dstBuffer
    /\ "cb1" \in DOMAIN cb_access_state
    /\ reports = << >> /\ skip = FALSE

\* C10: after recording a copy of at least one region, whether or not its
\* validation reported a hazard, the destination holds the transfer write with
\* no read record and an empty granted scope (also when it is the source: the
\* read is recorded first), and a distinct source holds a transfer-stage read
\* record with an empty granted scope.
C10_RecordCopy ==
    (last_call.hook = "RecordCopy" /\ last_call.regionCount >= 1) =>
        LET cb == last_call.commandBuffer
            src == last_call.srcBuffer
            dst == last_call.dstBuffer
        IN  /\ Tracked(cb_access_state, cb, dst)
            /\ cb_access_state[cb][dst].last_write = FlagBit(SYNC_TRANSFER_TRANSFER_WRITE)
            /\ cb_access_state[cb][dst].write_tag = tag
            /\ cb_access_state[cb][dst].write_barriers = {}
            /\ cb_access_state[cb][dst].last_reads = << >>
            /\ cb_access_state[cb][dst].last_read_stages = {}
            /\ src # dst =>
                  /\ Tracked(cb_access_state, cb, src)
                  /\ \E i \in 1..Len(cb_access_state[cb][src].last_reads) :
                        cb_access_state[cb][src].last_reads[i]
                            = [ stage |-> VK_PIPELINE_STAGE_TRANSFER_BIT, barriers |-> {}, tag |-> tag ]

C10_Witness ==
    /\ last_call.hook = "RecordCopy" /\ last_call.flagged
    /\ last_call.regionCount = MaxRegions
    /\ last_call.srcBuffer # last_call.dstBuffer
    /\ cb_access_state[last_call.commandBuffer][last_call.srcBuffer].last_write # {}

\* ------------------------------------------------------------------------
\* Further properties of ResourceAccessState (checked under SpecState)
\* ------------------------------------------------------------------------
\* C11: in every state last_read_stages is exactly the set of the stages of
\* the live read records, and is empty exactly when there is none.
C11_ReadStagesMask ==
    /\ access.last_read_stages
         = { access.last_reads[i].stage : i \in 1..Len(access.last_reads) }
    /\ (access.last_read_stages = {}) <=> (access.last_reads = << >>)

C11_Witness ==
    /\ hist.written /\ hist.collapsed
    /\ Len(access.last_reads) = 2
    /\ access.last_read_stages
         = { VK_PIPELINE_STAGE_COMPUTE_SHADER_BIT, VK_PIPELINE_STAGE_TRANSFER_BIT }
    /\ access.last_reads[1].barriers # {}
    /\ access.write_barriers # {}

\* the fixed table of hazard names: identifier and human label
HazardNames ==
    [ h \in { NONE, READ_AFTER_WRITE, WRITE_AFTER_READ, WRITE_AFTER_WRITE } |->
        CASE h = NONE -> << "SYNC-NONE", "NONE" >>
          [] h = READ_AFTER_WRITE -> << "SYNC-HAZARD-READ_AFTER_WRITE", "READ_AFTER_WRITE" >>
          [] h = WRITE_AFTER_READ -> << "SYNC-HAZARD-WRITE_AFTER_READ", "WRITE_AFTER_READ" >>
          [] h = WRITE_AFTER_WRITE -> << "SYNC-HAZARD-WRITE_AFTER_WRITE", "WRITE_AFTER_WRITE" >> ]

\* C12: for every hazard kind DetectHazard returns, the identifier and the
\* human label are those of the fixed table.
C12_HazardNames ==
    Queried =>
        << string_SyncHazardVUID(query.result.hazard), string_SyncHazard(query.result.hazard) >>
            = HazardNames[query.result.hazard]

\* C13: for a read usage DetectHazard reports ReadAfterWrite with the write's
\* tag when the usage is not covered by write_barriers, and NONE otherwise;
\* never WriteAfterRead or WriteAfterWrite.
C13_ReadUsage ==
    QueryIsRead =>
        query.result = IF query.usage \notin access.write_barriers
                       THEN HazardResult(READ_AFTER_WRITE, hist.wtag)
                       ELSE NoHazard

\* C14: for a write usage DetectHazard reports WriteAfterWrite with the
\* write's tag if a write was recorded and write_barriers does not cover the
\* usage, also when uncovered reads exist; otherwise WriteAfterRead with the tag
\* of the first read record in stored order whose barriers do not cover the
\* usage's stage; otherwise NONE.
C14_WriteUsage ==
    QueryIsWrite =>
        LET usage_stage == PipelineStageBit(query.usage) IN
        query.result =
            IF hist.written /\ query.usage \notin access.write_barriers
            THEN HazardResult(WRITE_AFTER_WRITE, hist.wtag)
            ELSE IF Uncovered(usage_stage) # {}
                 THEN HazardResult(WRITE_AFTER_READ,
                                   hist.rtags[access.last_reads[FirstUncovered(usage_stage)].stage])
                 ELSE NoHazard

C14_Witness ==
    /\ QueryIsWrite
    /\ query.result.hazard = WRITE_AFTER_WRITE
    /\ Len(access.last_reads) = 2
    /\ Uncovered(PipelineStageBit(query.usage)) = { 2 }
    /\ hist.rtags[access.last_reads[2].stage] # hist.wtag

\* what a barrier may change: it adds to the barriers of the read records and
\* to write_barriers, and leaves the rest
OnlyAddsCoverage(s, s2) ==
    /\ Len(s2.last_reads) = Len(s.last_reads)
    /\ \A i \in 1..Len(s.last_reads) :
          /\ s2.last_reads[i].stage = s.last_reads[i].stage
          /\ s2.last_reads[i].tag = s.last_reads[i].tag
          /\ s.last_reads[i].barriers \subseteq s2.last_reads[i].barriers
    /\ s2.last_read_stages = s.last_read_stages
    /\ s2.last_write = s.last_write
    /\ s2.write_tag = s.write_tag
    /\ s.write_barriers \subseteq s2.write_barriers
    /\ \A u \in SyncStageAccessIndex :
          DetectHazard(s, u) = NoHazard => DetectHazard(s2, u) = NoHazard

\* C20: every step that is not an Update (a read Update sets rfresh, a write
\* Update sets wfresh) only adds coverage: granted scopes grow, stages, tags,
\* last_write and write_tag stay, and a usage that DetectHazard reports as NONE
\* stays NONE.
C20_BarriersOnlyAdd ==
    [][ (~hist'.wfresh /\ ~hist'.rfresh) => OnlyAddsCoverage(access, access') ]_vars

C20_Witness ==
    /\ ~hist.wfresh /\ ~hist.rfresh /\ hist.written
    /\ QueryIsWrite /\ query.result = NoHazard
    /\ Len(access.last_reads) = 2
    /\ access.last_reads[1].barriers # access.last_reads[2].barriers

\* the stored read record of the stage
RecordOfStage(stage) ==
    access.last_reads[CHOOSE i \in 1..Len(access.last_reads) : access.last_reads[i].stage = stage]

\* C15: after a read at stage S, an execution barrier with source containing S
\* and destination D1, and an execution barrier whose source meets D1 but not
\* S, with destination D2, the record of S holds D1 and D2 in its barriers, and
\* a write usage at a stage of D2 reports no WriteAfterRead against that read:
\* if it reports WriteAfterRead, it is against the record of another stage.
C15_ExecutionBarriersChain ==
    bhist.chain.phase = 3 =>
        /\ bhist.chain.d \subseteq BarriersOfStage(access.last_reads, bhist.chain.stage)
        /\ (QueryIsWrite /\ PipelineStageBit(query.usage) \in bhist.chain.d2) =>
              /\ bhist.chain.stage
                    \notin { access.last_reads[i].stage : i \in Uncovered(PipelineStageBit(query.usage)) }
              /\ query.result.hazard = WRITE_AFTER_READ =>
                    access.last_reads[FirstUncovered(PipelineStageBit(query.usage))].stage
                        # bhist.chain.stage

C15_Witness ==
    /\ bhist.chain.phase = 3
    /\ Cardinality(bhist.chain.d2) = 1
    /\ Cardinality(bhist.chain.d) = 2
    /\ QueryIsWrite /\ PipelineStageBit(query.usage) \in bhist.chain.d2
    /\ query.result = NoHazard
    /\ RecordOfStage(bhist.chain.stage).barriers = bhist.chain.d

\* C16: ApplyMemoryBarrier adds the destination scope to write_barriers exactly
\* when the source scope meets last_write or the current write_barriers, also
\* when it meets write_barriers only, and leaves write_barriers as it is
\* otherwise.
C16_MemoryBarriersChain ==
    bhist.mb.kind # "none" => access.write_barriers = bhist.mb.expect

C16_Witness ==
    /\ bhist.mb.kind = "chain"
    /\ bhist.written
    /\ Cardinality(access.write_barriers) = 2

\* C17 as stated: after a read at a stage whose record had barriers D, a write
\* usage at a stage of D reports WriteAfterRead with the tag of that read.
C17_FreshReadRestarts_Original ==
    (bhist.restart.on /\ QueryIsWrite /\ PipelineStageBit(query.usage) \in bhist.restart.d) =>
        query.result = HazardResult(WRITE_AFTER_READ, bhist.restart.tag)

\* what C17 says of the state after the read and of a query that follows it
RestartedState ==
    bhist.restart.on =>
        /\ \E i \in 1..Len(access.last_reads) :
              access.last_reads[i] = [ stage |-> bhist.restart.stage, barriers |-> {},
                                       tag |-> bhist.restart.tag ]
        /\ (QueryIsWrite /\ PipelineStageBit(query.usage) \in bhist.restart.d) =>
              LET usage_stage == PipelineStageBit(query.usage)
                  first == access.last_reads[FirstUncovered(usage_stage)]
              IN  /\ Uncovered(usage_stage) # {}
                  /\ query.result =
                        IF bhist.written /\ query.usage \notin access.write_barriers
                        THEN HazardResult(WRITE_AFTER_WRITE, access.write_tag)
                        ELSE HazardResult(WRITE_AFTER_READ, first.tag)
                  /\ first.stage = bhist.restart.stage => first.tag = bhist.restart.tag

\* what C17 says of the read itself: the records of the other stages stay
RestartKeepsOthers ==
    bhist'.restart.on =>
        /\ Len(access'.last_reads) = Len(access.last_reads)
        /\ \A i \in 1..Len(access.last_reads) :
              access.last_reads[i].stage # bhist'.restart.stage =>
                  access'.last_reads[i] = access.last_reads[i]

\* C17 amended: a read with tag t2 at a stage S whose record had barriers D
\* leaves the record of S with no barriers and tag t2 and the records of the
\* other stages as they were; a write usage at a stage of D is then reported as
\* a hazard: WriteAfterWrite if a recorded write is not covered for the usage,
\* otherwise WriteAfterRead with the tag of the first stored record that does
\* not cover the usage's stage, which is t2 when that record is the one of S.
C17_FreshReadRestarts ==
    [] RestartedState /\ [][RestartKeepsOthers]_vars

C17_Witness ==
    /\ bhist.restart.on
    /\ QueryIsWrite /\ PipelineStageBit(query.usage) \in bhist.restart.d
    /\ query.result = HazardResult(WRITE_AFTER_READ, bhist.restart.tag)
    /\ Len(access.last_reads) = 2
    /\ Uncovered(PipelineStageBit(query.usage)) = { 2 }

\* C19: while no write has been recorded, DetectHazard reports neither
\* ReadAfterWrite nor WriteAfterWrite, whatever read Updates, execution
\* barriers and memory barriers were applied.
C19_NoWriteNoWriteHazard ==
    (~bhist.written /\ Queried) =>
        query.result.hazard \notin { READ_AFTER_WRITE, WRITE_AFTER_WRITE }

C19_Witness ==
    /\ ~bhist.written /\ bhist.nwbarrier
    /\ Queried
    /\ Len(access.last_reads) = 2
    /\ \E i \in 1..2 : access.last_reads[i].barriers # {}

\* C18: recording a pipeline barrier leaves each buffer that has an entry in
\* the tracker of the command buffer with the buffer barriers that name it, then
\* the execution barrier, then every global memory barrier applied to its
\* state; a buffer without an entry is skipped and gains none.
C18_RecordPipelineBarrier ==
    barrier_call.on => cb_access_state = barrier_call.expect

C18_Witness ==
    /\ barrier_call.on /\ barrier_call.untracked /\ barrier_call.global
    /\ \E cb \in DOMAIN cb_access_state :
          /\ DOMAIN cb_access_state[cb] # {}
          /\ DOMAIN cb_access_state[cb] # Buffers
          /\ \E b \in DOMAIN cb_access_state[cb] :
                cb_access_state[cb][b].write_barriers \notin { {}, AllStageAccess }

====
